---- MODULE Spec2Model ----
(***************************************************************************)
(* Recording-to-workflow compiler of the G4 VS Code extension:             *)
(* StopRecorderCommand (src/src/commands/stop-recorder.ts, lines 1-728)    *)
(* and EventCaptureService (src/unnamed/part_006).                         *)
(*                                                                         *)
(* Four specifications:                                                    *)
(*   Spec     the recording session: events are delivered to connection    *)
(*            buffers and Stop-Recorder runs its pass over them;           *)
(*   SpecConn the connection layer under fair scheduling of timers and     *)
(*            promises: attempts may fail any number of times;             *)
(*   SpecJob  newJob on one BufferGroup, one loop iteration per step;      *)
(*   SpecKinds  the same on groups drawn from every kind of message.       *)
(*                                                                         *)
(* Modelling conventions                                                   *)
(*   - JavaScript undefined / null is the value None.                      *)
(*   - A recorded message is a record; message.timestamp and               *)
(*     message.value.timestamp are the one field timestamp.                *)
(*   - chain.path is modelled by path: TRUE when it has a last element.    *)
(*   - HubConnection (@microsoft/signalr): start() is refused unless the   *)
(*     state is Disconnected; stop() moves a connected or connecting       *)
(*     connection to Disconnecting and rejects an attempt in flight.       *)
(*   - Regular expressions are evaluated on the strings of the alphabets   *)
(*     below (MatchesDown, MatchesUp, ...).                                *)
(***************************************************************************)
EXTENDS Integers, Sequences, FiniteSets, TLC

VARIABLES
    job,          \* newJob: the locals of the consume-from-front loop
    connections,  \* StopRecorderCommand._connections: baseUrl -> options
    buffers,      \* EventCaptureService._buffer of every connection
    status,       \* state of every connection's HubConnection
    delivered,    \* number of messages the hubs have delivered so far
    pc,           \* position of the Stop-Recorder pass
    merged,       \* onInvokeCommand: const buffer (the sorted snapshot)
    groups,       \* onInvokeCommand: const groups
    automation,   \* onInvokeCommand: const automation, once its jobs are attached
    viewer,       \* documents handed to ShowWorkflowCommand.invokeCommand
    log,          \* logger calls of the pass
    retry,        \* per connection: number of pending setTimeout(() => this.start(), 5000)
    failures,     \* per connection: "Failed to connect" errors logged, up to MaxFailures
    starting,     \* per connection: the promise of a _connection.start() is pending
    promise,      \* per connection: the promise start() returned to Start-Recorder
    taken,        \* history: number of messages the snapshots so far have held
    stopped       \* history, per connection: disconnect was called since the last Start-Recorder

vars == <<job, connections, buffers, status, delivered, pc, merged, groups, automation, viewer, log,
          retry, failures, starting, promise, taken, stopped>>

\* undefined / null of a string-valued field
None == "undefined"

\* undefined event (buffer.shift() of an empty array, a rejected event)
NoEvent == [undefined |-> TRUE]

\* an undefined thinkTimeSettings option
NoSettings == [undefined |-> TRUE]

\* this._connections.get(url) of an endpoint that is not registered
NoConnection == [undefined |-> TRUE]

\* no automation built
NoAutomation == [undefined |-> TRUE]

\* context.timestamp of a rule without one; Number(undefined) is not finite
NoTimestamp == -1

(***************************************************************************)
(* Bounds                                                                  *)
(***************************************************************************)
MaxGroupLen == 3
MaxEvents == 3

(***************************************************************************)
(* String helpers of the JavaScript runtime, on the alphabets used         *)
(***************************************************************************)
\* String.prototype.toLowerCase on the key names and button words used
ToLowerCase(s) ==
    CASE s = "Enter" -> "enter"
      [] s = "Tab" -> "tab"
      [] s = "Shift" -> "shift"
      [] s = "Space" -> "space"
      [] s = "Left" -> "left"
      [] s = "Right" -> "right"
      [] s = "Middle" -> "middle"
      [] s = "XButton1" -> "xbutton1"
      [] s = "HostA" -> "hosta"
      [] s = "HostB" -> "hostb"
      [] OTHER -> s

\* value.event strings
MouseUpEvents == {"Left Up", "Right Up", "Middle Up", "XButton1 Up"}
MouseDownEvents == {"Left Down", "Right Down", "Middle Down", "XButton1 Down"}
EventStrings == MouseUpEvents \cup MouseDownEvents \cup {"Key Up", "Key Down", "Wheel"}

\* event.match(/down/i)
MatchesDown(s) == s \in MouseDownEvents \cup {"Key Down"}

\* event.match(/up/i)
MatchesUp(s) == s \in MouseUpEvents \cup {"Key Up"}

\* type.match(/mouse/gi)
MatchesMouse(s) == s \in {"mouse", "Mouse"}

\* type.match(/keyboard/i)
MatchesKeyboard(s) == s \in {"keyboard", "Keyboard"}

\* key.match(/^space$/i)
MatchesSpace(s) == ToLowerCase(s) = "space"

\* event.split(' ')[0]
FirstWord(s) ==
    CASE s \in {"Left Up", "Left Down"} -> "Left"
      [] s \in {"Right Up", "Right Down"} -> "Right"
      [] s \in {"Middle Up", "Middle Down"} -> "Middle"
      [] s \in {"XButton1 Up", "XButton1 Down"} -> "XButton1"
      [] s \in {"Key Up", "Key Down"} -> "Key"
      [] OTHER -> s

\* locators
ElementLocator == "//Button[@Name='OK']"
EditLocator == "//Edit[@Name='User']"
RecorderLocator == "//Window[@Name='Extension Development Host']"

\* locator.match(/Extension Development Host/i)
MatchesRecorder(s) == s = RecorderLocator

(***************************************************************************)
(* StopRecorderCommand._includeKeyboardEventMap                            *)
(***************************************************************************)
IncludeKeyboardEventMap ==
    ("backspace" :> "Backspace") @@ ("caps lock" :> "Caps Lock") @@
    ("delete" :> "Delete") @@ ("down" :> "Down") @@ ("end" :> "End") @@
    ("enter" :> "Enter") @@ ("esc" :> "Esc") @@ ("f1" :> "F1") @@
    ("f2" :> "F2") @@ ("f3" :> "F3") @@ ("f4" :> "F4") @@ ("f5" :> "F5") @@
    ("f6" :> "F6") @@ ("f7" :> "F7") @@ ("f8" :> "F8") @@ ("f9" :> "F9") @@
    ("f10" :> "F10") @@ ("f11" :> "F11") @@ ("f12" :> "F12") @@
    ("home" :> "Home") @@ ("insert" :> "Insert") @@ ("left" :> "Left") @@
    ("num del" :> "Num Del") @@ ("num lock" :> "Num Lock") @@
    ("page down" :> "Page Down") @@ ("page up" :> "Page Up") @@
    ("pause" :> "Pause") @@ ("prnt scrn" :> "Prnt Scrn") @@
    ("right" :> "Right") @@ ("scroll lock" :> "Scroll Lock") @@
    ("tab" :> "Tab") @@ ("up" :> "Up")

\* includeKeyboardEventMap.has(key)
MapHas(key) == key \in DOMAIN IncludeKeyboardEventMap

(***************************************************************************)
(* Recorded messages                                                       *)
(***************************************************************************)
\* A recorded message (RawEvent) as delivered by the hub.
NewEvent(type, event, key, locator, path, machineName, timestamp) ==
    [type |-> type, event |-> event, key |-> key, locator |-> locator,
     path |-> path, machineName |-> machineName, timestamp |-> timestamp,
     x |-> 10, y |-> 20]

(***************************************************************************)
(* assertEvent: the normalizer. Returns the accepted event (the .event of  *)
(* the normalized structure, the only part newJob reads) or None.          *)
(***************************************************************************)
\* a normalizer that lets the down events through
AssertEventKeepsDown(event) ==
    IF event = NoEvent THEN NoEvent
    ELSE IF MatchesRecorder(event.locator) THEN NoEvent
    ELSE IF ~MatchesDown(event.event) /\ ~MatchesUp(event.event) THEN NoEvent
    ELSE IF ~event.path THEN NoEvent
    ELSE event

AssertEvent(event) ==
    IF event = NoEvent THEN NoEvent
    ELSE IF MatchesRecorder(event.locator) THEN NoEvent
    ELSE IF MatchesDown(event.event) THEN NoEvent
    ELSE IF ~MatchesUp(event.event) THEN NoEvent
    ELSE IF ~event.path THEN NoEvent
    ELSE event

\* Array.prototype.shift: the removed element (None on an empty array)
Shift(buffer) == IF buffer = <<>> THEN NoEvent ELSE Head(buffer)

\* the array after Array.prototype.shift
Shifted(buffer) == IF buffer = <<>> THEN <<>> ELSE Tail(buffer)

\* a list without its last element, and its last element (Array.prototype.at(-1))
Front(s) == SubSeq(s, 1, Len(s) - 1)

Last(s) == s[Len(s)]

(***************************************************************************)
(* Rules                                                                   *)
(***************************************************************************)
NewRule(pluginName, onElement, argument, timestamp) ==
    [pluginName |-> pluginName, onElement |-> onElement,
     argument |-> argument, timestamp |-> timestamp]

CloseBrowserRule == NewRule("CloseBrowser", None, None, NoTimestamp)

\* a pointer rule that keeps the locator in coordinate mode
ResolveMouseEventKeepsLocator(mode, event) ==
    LET mouseEventType == ToLowerCase(FirstWord(event.event))
        pluginName ==
            CASE mouseEventType = "left" ->
                    (IF mode = "standard" THEN "InvokeClick" ELSE "InvokeUser32Click")
              [] mouseEventType = "middle" ->
                    (IF mode = "standard" THEN "InvokeMiddleClick" ELSE "InvokeUser32MiddleClick")
              [] mouseEventType = "right" ->
                    (IF mode = "standard" THEN "InvokeContextClick" ELSE "InvokeUser32ContextClick")
              [] OTHER -> "None"
    IN  NewRule(pluginName, event.locator, None, event.timestamp)

\* resolveMouseEvent
ResolveMouseEvent(mode, event) ==
    LET mouseEventType == ToLowerCase(FirstWord(event.event))
        pluginName ==
            CASE mouseEventType = "left" ->
                    (IF mode = "standard" THEN "InvokeClick" ELSE "InvokeUser32Click")
              [] mouseEventType = "middle" ->
                    (IF mode = "standard" THEN "InvokeMiddleClick" ELSE "InvokeUser32MiddleClick")
              [] mouseEventType = "right" ->
                    (IF mode = "standard" THEN "InvokeContextClick" ELSE "InvokeUser32ContextClick")
              [] OTHER -> "None"
    IN  IF mode = "coordinate"
        THEN NewRule(pluginName, None,
                     "{{$ --X:" \o ToString(event.x) \o " --Y:" \o ToString(event.y) \o "}}",
                     event.timestamp)
        ELSE NewRule(pluginName, event.locator, None, event.timestamp)

\* event?.value?.chain?.locator and event?.value?.timestamp of a possibly undefined event
LocatorOf(event) == IF event = NoEvent THEN None ELSE event.locator

TimestampOf(event) == IF event = NoEvent THEN NoTimestamp ELSE event.timestamp

\* newKeyboardRule (inner function of resolveKeyboardEvent)
NewKeyboardRule(mode, keys, event, isKeyboard) ==
    LET keysAction == IF mode = "standard" THEN "SendKeys" ELSE "SendUser32Keys"
        keyboardAction == IF mode = "standard" THEN "SendKeyboardKey" ELSE "SendUser32KeyboardKey"
        parameter == IF isKeyboard THEN "Key" ELSE "Keys"
        pluginName == IF isKeyboard THEN keyboardAction ELSE keysAction
    IN  NewRule(pluginName,
                IF mode = "coordinate" THEN None ELSE LocatorOf(event),
                "{{$ --" \o parameter \o ":" \o keys \o "}}",
                TimestampOf(event))

\* resolveKeyboardKey
ResolveKeyboardKey(mode, event) ==
    LET key == ToLowerCase(event.key)
        resolved == IF MapHas(key) THEN IncludeKeyboardEventMap[key] ELSE None
    IN  [resolved |-> resolved,
         rule |-> NewRule(IF mode = "standard" THEN "SendKeyboardKey" ELSE "SendUser32KeyboardKey",
                          IF mode = "coordinate" THEN None ELSE event.locator,
                          "{{$ --Key:" \o (IF resolved = None THEN "null" ELSE resolved) \o "}}",
                          event.timestamp)]

\* keysBuffer.filter(i => i !== '').join('')
RECURSIVE JoinKeys(_)
JoinKeys(keysBuffer) ==
    IF keysBuffer = <<>> THEN ""
    ELSE Head(keysBuffer) \o JoinKeys(Tail(keysBuffer))

(***************************************************************************)
(* addThinkTime (inner function of newJob)                                 *)
(***************************************************************************)
\* Math.min
Min(a, b) == IF a < b THEN a ELSE b

\* Number.isFinite(Number(rule?.context?.timestamp))
IsFiniteTimestamp(rule) == rule.timestamp # NoTimestamp

WaitFlowRule(duration) ==
    NewRule("WaitFlow", None, "{{$ --Timeout:" \o ToString(duration) \o "}}", NoTimestamp)

\* the body of the for loop, from index i on
RECURSIVE ThinkTimeLoop(_, _, _, _)
ThinkTimeLoop(rules, i, minThinkTime, maxThinkTime) ==
    IF i > Len(rules) - 1 THEN <<>>
    ELSE LET currentRule == rules[i]
             nextRule == rules[i + 1]
             delta == nextRule.timestamp - currentRule.timestamp
             inserted ==
                 IF ~IsFiniteTimestamp(currentRule) \/ ~IsFiniteTimestamp(nextRule) THEN <<>>
                 ELSE IF delta > minThinkTime
                      THEN <<WaitFlowRule(Min(delta, maxThinkTime))>>
                      ELSE <<>>
         IN  <<currentRule>> \o inserted \o ThinkTimeLoop(rules, i + 1, minThinkTime, maxThinkTime)

\* addThinkTime without the push of the final rule
AddThinkTimeDropsLast(rules, minThinkTime, maxThinkTime) ==
    IF Len(rules) < 2 THEN rules
    ELSE ThinkTimeLoop(rules, 1, minThinkTime, maxThinkTime)

\* addThinkTime with a wait after the final rule
AddThinkTimeTrailing(rules, minThinkTime, maxThinkTime) ==
    IF Len(rules) < 2 THEN rules
    ELSE ThinkTimeLoop(rules, 1, minThinkTime, maxThinkTime) \o <<rules[Len(rules)]>>
            \o <<WaitFlowRule(maxThinkTime)>>

\* addThinkTime with the duration not capped (maxThinkTime ignored)
AddThinkTimeUncapped(rules, minThinkTime, maxThinkTime) ==
    IF Len(rules) < 2 THEN rules
    ELSE ThinkTimeLoop(rules, 1, minThinkTime, minThinkTime + 1000) \o <<rules[Len(rules)]>>

AddThinkTime(rules, minThinkTime, maxThinkTime) ==
    IF Len(rules) < 2 THEN rules
    ELSE ThinkTimeLoop(rules, 1, minThinkTime, maxThinkTime) \o <<rules[Len(rules)]>>

\* thinkTimeSettings
NewThinkTimeSettings(enabled, minThinkTime, maxThinkTime) ==
    [enabled |-> enabled, minThinkTime |-> minThinkTime, maxThinkTime |-> maxThinkTime]

\* the default applied by onInvokeCommand when the connection has none
NoThinkTime == NewThinkTimeSettings(FALSE, 0, 0)

(***************************************************************************)
(* newJob: the consume-from-front loop and the keyboard sub-scan           *)
(* (resolveKeyboardEvent), one loop iteration per step.                    *)
(*   pc = "main"  at the test of while (buffer.length > 0)                 *)
(*   pc = "scan"  at the test of while (isKeyboard)                        *)
(*   pc = "done"  newJob has returned                                      *)
(*   pc = "none"  no call of newJob                                        *)
(***************************************************************************)
NoJob ==
    [pc |-> "none", id |-> None, mode |-> None, machineName |-> None,
     thinkTimeSettings |-> NoThinkTime, events |-> <<>>,
     buffer |-> <<>>, rules |-> <<>>,
     event |-> NoEvent, keysBuffer |-> <<>>, isKeyboard |-> FALSE]

\* newJob up to the loop: const buffer = [...bufferGroup.events], const job
EnterNewJob(id, mode, bufferGroup) ==
    [pc |-> "main", id |-> id, mode |-> mode, machineName |-> bufferGroup.machineName,
     thinkTimeSettings |-> bufferGroup.thinkTimeSettings, events |-> bufferGroup.events,
     buffer |-> bufferGroup.events, rules |-> <<>>,
     event |-> NoEvent, keysBuffer |-> <<>>, isKeyboard |-> FALSE]

\* an iteration that gives up the rest of the group on an unmapped button
MainIterationAborting(j) ==
    LET event == AssertEvent(Shift(j.buffer))
        rest == Shifted(j.buffer)
    IN  IF event = NoEvent THEN [j EXCEPT !.buffer = rest]
        ELSE IF MatchesMouse(event.type)
        THEN [j EXCEPT !.buffer = IF ResolveMouseEvent(j.mode, event).pluginName = "None"
                                  THEN <<>> ELSE rest,
                       !.rules = Append(@, ResolveMouseEvent(j.mode, event))]
        ELSE [j EXCEPT !.buffer = rest, !.pc = "scan", !.event = event,
                       !.keysBuffer = <<event.key>>,
                       !.isKeyboard = MatchesKeyboard(event.type)]

\* one iteration of while (buffer.length > 0); a keyboard event calls
\* resolveKeyboardEvent, which runs up to the test of its loop
MainIteration(j) ==
    LET event == AssertEvent(Shift(j.buffer))
        rest == Shifted(j.buffer)
    IN  IF event = NoEvent THEN [j EXCEPT !.buffer = rest]
        ELSE IF MatchesMouse(event.type)
        THEN [j EXCEPT !.buffer = rest,
                       !.rules = Append(@, ResolveMouseEvent(j.mode, event))]
        ELSE [j EXCEPT !.buffer = rest, !.pc = "scan", !.event = event,
                       !.keysBuffer = <<event.key>>,
                       !.isKeyboard = MatchesKeyboard(event.type)]

\* return [keysRule, ...rules] of resolveKeyboardEvent and job.rules.push(...)
ReturnKeyboardActions(j, actions) ==
    [j EXCEPT !.pc = "main", !.rules = @ \o actions, !.event = NoEvent,
              !.keysBuffer = <<>>, !.isKeyboard = FALSE]

\* buffer?.[0]?.value?.type?.match(/keyboard/i)
PeekIsKeyboard(buffer) == buffer # <<>> /\ MatchesKeyboard(buffer[1].type)

\* the close-out on a resolved special key
SpecialKeyActions(mode, keysBuffer, event, keyboardKey) ==
    LET isLength == Len(keysBuffer) = 1
        isEntry == MapHas(ToLowerCase(keysBuffer[1]))
        isSingleSpecialKey == isLength /\ isEntry
        keys == IF isSingleSpecialKey THEN keysBuffer[1] ELSE JoinKeys(keysBuffer)
        keysRule == NewKeyboardRule(mode, keys, event, isSingleSpecialKey)
    IN  <<keysRule, keyboardKey.rule>>

\* the close-out after the loop
SequenceActions(mode, keysBuffer, event) ==
    <<NewKeyboardRule(mode, JoinKeys(keysBuffer), event, FALSE)>>

\* one iteration of while (isKeyboard)
ScanIteration(j) ==
    LET event == AssertEvent(Shift(j.buffer))
        rest == Shifted(j.buffer)
    IN  IF event = NoEvent THEN [j EXCEPT !.buffer = rest, !.event = NoEvent]
        ELSE LET key == IF MatchesSpace(event.key) THEN " " ELSE event.key
                 keyboardKey == ResolveKeyboardKey(j.mode, event)
             IN  IF keyboardKey.resolved # None
                 THEN ReturnKeyboardActions([j EXCEPT !.buffer = rest],
                          SpecialKeyActions(j.mode, j.keysBuffer, event, keyboardKey))
                 ELSE IF Len(key) > 1
                 THEN [j EXCEPT !.buffer = rest, !.event = event]
                 ELSE [j EXCEPT !.buffer = rest, !.event = event,
                                !.keysBuffer = Append(@, key),
                                !.isKeyboard = PeekIsKeyboard(rest)]

\* the code after while (isKeyboard)
ScanExit(j) ==
    ReturnKeyboardActions(j, SequenceActions(j.mode, j.keysBuffer, j.event))

\* the code after while (buffer.length > 0)
CloseJob(j) ==
    LET rules == Append(j.rules, CloseBrowserRule)
        settings == j.thinkTimeSettings
    IN  [j EXCEPT !.pc = "done",
                  !.rules = IF settings.enabled
                            THEN AddThinkTime(rules, settings.minThinkTime, settings.maxThinkTime)
                            ELSE rules]

\* the next position of newJob
JobStep(j) ==
    CASE j.pc = "main" /\ j.buffer # <<>> -> MainIteration(j)
      [] j.pc = "main" /\ j.buffer = <<>> -> CloseJob(j)
      [] j.pc = "scan" /\ j.isKeyboard -> ScanIteration(j)
      [] j.pc = "scan" /\ ~j.isKeyboard -> ScanExit(j)
      [] OTHER -> j

\* newJob run to its return, or to an iteration that changes nothing
\* (the loop then repeats that iteration for ever)
RECURSIVE RunJob(_)
RunJob(j) ==
    IF j.pc = "done" THEN j
    ELSE LET next == JobStep(j)
         IN  IF next = j THEN j ELSE RunJob(next)

NewJob(id, mode, bufferGroup) == RunJob(EnterNewJob(id, mode, bufferGroup))

(***************************************************************************)
(* SpecJob: newJob on one BufferGroup                                      *)
(***************************************************************************)
\* capture modes (EventCaptureMode)
Modes == {"standard", "user32", "coordinate"}

\* the kinds of recorded message a group is drawn from:
\* <<type, event, key, locator, path>>
ClickKind == <<"mouse", "Left Up", "", ElementLocator, TRUE>>

KeyKind(key) == <<"keyboard", "Key Up", key, EditLocator, TRUE>>

KeyDownKind == <<"keyboard", "Key Down", "h", EditLocator, TRUE>>

JobKinds ==
    {ClickKind, KeyDownKind,
     KeyKind("h"), KeyKind("i"), KeyKind("Enter"), KeyKind("Shift"), KeyKind("Space")}

\* gaps between the timestamps of consecutive messages of a group
Gaps == {1, 2, 4}

\* think-time settings a group is compiled with
ThinkTimes == {NoThinkTime, NewThinkTimeSettings(TRUE, 1, 3)}

\* timestamp sequences of length n: start at 1, grow by a gap
RECURSIVE TimeSeqs(_)
TimeSeqs(n) ==
    IF n = 0 THEN {<<>>}
    ELSE IF n = 1 THEN {<<1>>}
    ELSE {Append(t, t[n - 1] + g) : t \in TimeSeqs(n - 1), g \in Gaps}

EventOfKind(k, machineName, timestamp) ==
    NewEvent(k[1], k[2], k[3], k[4], k[5], machineName, timestamp)

\* the event list of a group of machine HostA: kinds ks at timestamps ts
GroupEvents(ks, ts) == [i \in 1..Len(ks) |-> EventOfKind(ks[i], "HostA", ts[i])]

NewBufferGroup(id, machineName, events, baseUrl, thinkTimeSettings) ==
    [id |-> id, machineName |-> machineName, events |-> events,
     baseUrl |-> baseUrl, thinkTimeSettings |-> thinkTimeSettings]

UnitGaps(ts) == \A i \in 1..Len(ts) : ts[i] = i

\* newJob is entered with a group of up to MaxGroupLen messages. Timestamps
\* only matter to the think-time pass: a group compiled without it is drawn
\* with the gap 1 alone.
InitJob ==
    /\ \E n \in 0..MaxGroupLen :
       \E ks \in [1..n -> JobKinds], ts \in TimeSeqs(n), tt \in ThinkTimes, mode \in Modes :
          /\ tt.enabled \/ UnitGaps(ts)
          /\ job = EnterNewJob("recorded-actions-job-hosta", mode,
                               NewBufferGroup(1, "HostA", GroupEvents(ks, ts), None, tt))
    /\ connections = <<>>
    /\ buffers = <<>>
    /\ status = <<>>
    /\ delivered = 0
    /\ pc = "idle"
    /\ merged = <<>>
    /\ groups = <<>>
    /\ automation = NoAutomation
    /\ viewer = <<>>
    /\ log = <<>>
    /\ retry = <<>>
    /\ failures = <<>>
    /\ starting = <<>>
    /\ promise = <<>>
    /\ taken = 0
    /\ stopped = <<>>

Session == <<connections, buffers, status, delivered, pc, merged, groups, automation, viewer, log,
             retry, failures, starting, promise, taken, stopped>>

JobMainIteration ==
    /\ job.pc = "main" /\ job.buffer # <<>>
    /\ job' = MainIteration(job)
    /\ UNCHANGED Session

JobScanIteration ==
    /\ job.pc = "scan" /\ job.isKeyboard
    /\ job' = ScanIteration(job)
    /\ UNCHANGED Session

JobScanExit ==
    /\ job.pc = "scan" /\ ~job.isKeyboard
    /\ job' = ScanExit(job)
    /\ UNCHANGED Session

JobClose ==
    /\ job.pc = "main" /\ job.buffer = <<>>
    /\ job' = CloseJob(job)
    /\ UNCHANGED Session

NextJob == JobMainIteration \/ JobScanIteration \/ JobScanExit \/ JobClose

SpecJob == InitJob /\ [][NextJob]_vars

(***************************************************************************)
(* SpecKinds: newJob on one BufferGroup drawn from every kind of message,  *)
(* compiled without think-time                                             *)
(***************************************************************************)
\* <<type, event, key, locator, path>>
ButtonKind(event) == <<"mouse", event, "", ElementLocator, TRUE>>

\* a pointer message without a target element, and one on the recorder's UI
NoPathKind == <<"mouse", "Left Up", "", ElementLocator, FALSE>>

RecorderKind == <<"mouse", "Left Up", "", RecorderLocator, TRUE>>

\* a key press with a key of its own
KeyDownJKind == <<"keyboard", "Key Down", "j", EditLocator, TRUE>>

AllKinds ==
    {ButtonKind("Left Up"), ButtonKind("Middle Up"), ButtonKind("Right Up"),
     ButtonKind("XButton1 Up"),
     ButtonKind("Left Down"), ButtonKind("Wheel"), NoPathKind, RecorderKind, KeyDownJKind,
     KeyKind("h"), KeyKind("Space"), KeyKind("Shift"), KeyKind("Enter")}

InitKinds ==
    /\ \E n \in 0..MaxGroupLen :
       \E ks \in [1..n -> AllKinds], mode \in Modes :
          job = EnterNewJob("recorded-actions-job-hosta", mode,
                            NewBufferGroup(1, "HostA", GroupEvents(ks, [i \in 1..n |-> i]),
                                           None, NoThinkTime))
    /\ connections = <<>>
    /\ buffers = <<>>
    /\ status = <<>>
    /\ delivered = 0
    /\ pc = "idle"
    /\ merged = <<>>
    /\ groups = <<>>
    /\ automation = NoAutomation
    /\ viewer = <<>>
    /\ log = <<>>
    /\ retry = <<>>
    /\ failures = <<>>
    /\ starting = <<>>
    /\ promise = <<>>
    /\ taken = 0
    /\ stopped = <<>>

SpecKinds == InitKinds /\ [][NextJob]_vars

(***************************************************************************)
(* Spec: the recording session                                             *)
(***************************************************************************)
\* the endpoints, in the order the connection map was filled
AllUrls == <<"http://hosta:9955", "http://hostb:9955">>

\* message timestamps
Times == {1, 3}

\* the messages delivered in a session, as <<kind, value.machineName>>: clicks
\* on two machines, a key, and a message whose value has no machineName
SessionMessages ==
    {<<ClickKind, "HostA">>, <<ClickKind, "HostB">>, <<KeyKind("h"), "HostA">>,
     <<ClickKind, None>>}

\* the messages of the machine of the first endpoint
OwnMessages == {<<ClickKind, "HostA">>, <<KeyKind("h"), "HostA">>}

\* the messages the hub of an endpoint delivers, as <<kind, value.machineName,
\* timestamp>>: the first endpoint relays the messages of the session at either
\* time when it is the only endpoint, and the messages of its own machine
\* when there are two; every other endpoint the clicks on its own machine
MessagesOf(u) ==
    IF u # AllUrls[1] THEN {<<ClickKind, "HostB", 1>>}
    ELSE IF Cardinality(DOMAIN connections) = 1
    THEN {<<m[1], m[2], t>> : m \in SessionMessages, t \in Times}
    ELSE {<<m[1], m[2], t>> : m \in OwnMessages, t \in Times}

\* the one message of the connection-layer specification
ConnMessages == {<<ClickKind, "HostA">>}

\* the messages delivered in a session of the connection-layer specification
MaxConnEvents == 2

\* the errors of start() a connection's log is counted up to
MaxFailures == 2

\* the calls of start() of a connection that have not ended in a connection
MaxPending == 2

\* an empty object {}
EmptyObject == "{}"

\* EventCaptureOptions
NewOptions(baseUrl, mode, thinkTimeSettings, driverParameters) ==
    [baseUrl |-> baseUrl, mode |-> mode, thinkTimeSettings |-> thinkTimeSettings,
     driverParameters |-> driverParameters]

\* the options a connection is created with: the constructor of
\* StartRecorderCommand passes baseUrl and driverParameters, never mode or
\* thinkTimeSettings
OptionsOf(baseUrl) ==
    {NewOptions(baseUrl, None, NoSettings, None),
     NewOptions(baseUrl, None, NoSettings, "{driver:user32}"),
     NewOptions(baseUrl, None, NoSettings, "{driver:coordinate}")}

\* Array.from(connections.values()): the registered endpoints in map order
Values(conns) == SelectSeq(AllUrls, LAMBDA u : u \in DOMAIN conns)

\* service.buffer.map(item => ({...item, baseUrl: service.options.baseUrl}))
Tagged(buffer, baseUrl) ==
    [i \in 1..Len(buffer) |->
        [type |-> buffer[i].type, event |-> buffer[i].event, key |-> buffer[i].key,
         locator |-> buffer[i].locator, path |-> buffer[i].path,
         machineName |-> buffer[i].machineName, timestamp |-> buffer[i].timestamp,
         x |-> buffer[i].x, y |-> buffer[i].y, baseUrl |-> baseUrl]]

\* the message of a tagged item
Untagged(item) ==
    [type |-> item.type, event |-> item.event, key |-> item.key,
     locator |-> item.locator, path |-> item.path,
     machineName |-> item.machineName, timestamp |-> item.timestamp,
     x |-> item.x, y |-> item.y]

\* Array.from(values).flatMap(...)
RECURSIVE FlatMap(_, _)
FlatMap(urls, bufs) ==
    IF urls = <<>> THEN <<>>
    ELSE Tagged(bufs[Head(urls)], Head(urls)) \o FlatMap(Tail(urls), bufs)

\* insertion of e before the items with a timestamp not smaller than its own
InsertUnstable(sorted, e) ==
    LET k == Cardinality({i \in 1..Len(sorted) : sorted[i].timestamp < e.timestamp})
    IN  SubSeq(sorted, 1, k) \o <<e>> \o SubSeq(sorted, k + 1, Len(sorted))

\* insertion of e after the items with a timestamp not greater than its own
Insert(sorted, e) ==
    LET k == Cardinality({i \in 1..Len(sorted) : sorted[i].timestamp <= e.timestamp})
    IN  SubSeq(sorted, 1, k) \o <<e>> \o SubSeq(sorted, k + 1, Len(sorted))

\* Array.prototype.sort((a, b) => a.timestamp - b.timestamp): a stable sort
RECURSIVE SortByTimestamp(_)
SortByTimestamp(s) ==
    IF s = <<>> THEN <<>>
    ELSE Insert(SortByTimestamp(Front(s)), Last(s))

\* getFirstCaptureService
GetFirstCaptureService(conns, bufs) ==
    LET urls == Values(conns)
        items == FlatMap(urls, bufs)
        \* the first item, in iteration order, with the smallest timestamp
        earliest == CHOOSE i \in 1..Len(items) :
                        /\ \A k \in 1..Len(items) : items[i].timestamp <= items[k].timestamp
                        /\ \A k \in 1..(i - 1) : items[k].timestamp > items[i].timestamp
    IN  IF Len(urls) = 1 THEN urls[1]
        ELSE IF items = <<>> THEN None
        ELSE items[earliest].baseUrl

\* the loop of a group-by: an event joins the earlier group of its machine
RECURSIVE GroupLoopByName(_, _)
GroupLoopByName(buffer, grps) ==
    IF buffer = <<>> THEN grps
    ELSE LET event == Head(buffer)
             same == {i \in 1..Len(grps) : grps[i].machineName = event.machineName}
         IN  IF same = {}
             THEN GroupLoopByName(Tail(buffer),
                      Append(grps, NewBufferGroup(Len(grps) + 1, event.machineName, <<event>>,
                                                  None, NoSettings)))
             ELSE GroupLoopByName(Tail(buffer),
                      [grps EXCEPT ![CHOOSE i \in same : TRUE].events = Append(@, event)])

\* newBufferGroups: the loop over the buffer
RECURSIVE GroupLoop(_, _)
GroupLoop(buffer, grps) ==
    IF buffer = <<>> THEN grps
    ELSE LET event == Head(buffer)
             n == Len(grps)
         IN  IF n = 0 \/ grps[n].machineName # event.machineName
             THEN GroupLoop(Tail(buffer),
                      Append(grps, NewBufferGroup(n + 1, event.machineName, <<event>>,
                                                  None, NoSettings)))
             ELSE GroupLoop(Tail(buffer),
                      [grps EXCEPT ![n].events = Append(@, event)])

\* newBufferGroups
NewBufferGroups(buffer) ==
    LET grps == GroupLoop(buffer, <<>>)
        n == Len(grps)
    IN  IF n = 0 THEN grps
        ELSE [grps EXCEPT ![n].baseUrl = buffer[1].baseUrl]

\* this._connections.get(group.baseUrl || '')
ConnectionOf(conns, group) ==
    IF group.baseUrl \in DOMAIN conns THEN conns[group.baseUrl] ELSE NoConnection

\* connection?.options?.mode || 'standard'
ModeOf(connection) ==
    IF connection = NoConnection \/ connection.mode = None THEN "standard" ELSE connection.mode

\* connection?.options?.thinkTimeSettings || { enabled: false, ... }
ThinkTimeOf(connection) ==
    IF connection = NoConnection \/ connection.thinkTimeSettings = NoSettings
    THEN NoThinkTime ELSE connection.thinkTimeSettings

\* options.driverParameters || {}
DriverParametersOf(connection) ==
    IF connection = NoConnection \/ connection.driverParameters = None
    THEN EmptyObject ELSE connection.driverParameters

\* the groups with the think-time settings the loop of onInvokeCommand gives them
ConfiguredGroups(conns, grps) ==
    [i \in 1..Len(grps) |->
        [grps[i] EXCEPT !.thinkTimeSettings = ThinkTimeOf(ConnectionOf(conns, grps[i]))]]

JobId(group) == "recorded-actions-job-" \o ToLowerCase(group.machineName)

\* the calls of newJob of the loop of onInvokeCommand, each run to its end
CompiledJobs(conns, grps) ==
    [i \in 1..Len(grps) |->
        NewJob(JobId(grps[i]), ModeOf(ConnectionOf(conns, grps[i])), grps[i])]

\* the job definitions attached last group first
AttachedJobsReversed(conns, grps, compiled) ==
    [i \in 1..Len(grps) |->
        [id |-> compiled[Len(grps) + 1 - i].id,
         machineName |-> compiled[Len(grps) + 1 - i].machineName,
         driverParameters |-> EmptyObject,
         rules |-> compiled[Len(grps) + 1 - i].rules]]

\* the job definitions attached to the automation
AttachedJobs(conns, grps, compiled) ==
    [i \in 1..Len(grps) |->
        [id |-> compiled[i].id,
         machineName |-> compiled[i].machineName,
         driverParameters |->
             IF i # 1 /\ ConnectionOf(conns, grps[i]) # NoConnection
             THEN DriverParametersOf(ConnectionOf(conns, grps[i]))
             ELSE EmptyObject,
         rules |-> compiled[i].rules]]

\* newAutomation and the jobs pushed to its one stage
NewAutomation(driverParameters, jobs) ==
    [driverParameters |-> driverParameters,
     stages |-> <<[id |-> "recorder-stage-01", jobs |-> jobs]>>]

\* `group.machineName.toLowerCase()` throws a TypeError on a group without
\* machineName
Throws(group) == group.machineName = None

\* the call of newJob of the group's iteration does not return
Spins(conns, group) ==
    /\ ~Throws(group)
    /\ CompiledJobs(conns, ConfiguredGroups(conns, <<group>>))[1].pc # "done"

\* the number of iterations of the loop over the groups that are entered and
\* not left by an exception: the loop ends at the first group whose iteration
\* throws, and stays in the first iteration whose newJob does not return
RECURSIVE ReachedFrom(_, _, _)
ReachedFrom(conns, grps, i) ==
    IF i > Len(grps) THEN Len(grps)
    ELSE IF Throws(grps[i]) THEN i - 1
    ELSE IF Spins(conns, grps[i]) THEN i
    ELSE ReachedFrom(conns, grps, i + 1)

Reached(conns, grps) == ReachedFrom(conns, grps, 1)

\* a snapshot taken of the buffers once they are cleared
SnapshotAfterClear(conns, bufs) ==
    SortByTimestamp(FlatMap(Values(conns), [u \in DOMAIN bufs |-> <<>>]))

\* the merged snapshot: flatMap over the connections, sorted
Snapshot(conns, bufs) == SortByTimestamp(FlatMap(Values(conns), bufs))

\* buffers left as they are
KeepBuffers(bufs) == bufs

\* the buffers after service.clearBuffer() of every service
ClearBuffers(bufs) == [u \in DOMAIN bufs |-> <<>>]

\* connections left as they are
DisconnectNone(st) == st

\* the state of the HubConnections after service.disconnect() of every
\* service: _connection.stop() moves a HubConnection that is connected or
\* connecting to Disconnecting and leaves any other as it is
DisconnectAll(st) ==
    [u \in DOMAIN st |->
        IF st[u] \in {"connected", "connecting"} THEN "disconnecting" ELSE st[u]]

\* a call of the viewer whether or not the loop has completed
ViewerCallsAlways(completed, document) == <<document>>

\* the calls of ShowWorkflowCommand.invokeCommand of a pass: one, made after the
\* loop over the groups has completed
ViewerCalls(completed, document) == IF completed THEN <<document>> ELSE <<>>

Init ==
    /\ job = NoJob
    /\ connections \in
          UNION {[D -> UNION {OptionsOf(u) : u \in D}] : D \in SUBSET {AllUrls[i] : i \in 1..Len(AllUrls)}}
    /\ \A u \in DOMAIN connections : connections[u].baseUrl = u
    /\ Cardinality(DOMAIN connections) > 1 =>
          \A u \in DOMAIN connections : connections[u] = NewOptions(u, None, NoSettings, None)
    /\ buffers = [u \in DOMAIN connections |-> <<>>]
    /\ status = [u \in DOMAIN connections |-> "disconnected"]
    /\ delivered = 0
    /\ pc = "idle"
    /\ merged = <<>>
    /\ groups = <<>>
    /\ automation = NoAutomation
    /\ viewer = <<>>
    /\ log = <<>>
    /\ retry = [u \in DOMAIN connections |-> 0]
    /\ failures = [u \in DOMAIN connections |-> 0]
    /\ starting = [u \in DOMAIN connections |-> FALSE]
    /\ promise = [u \in DOMAIN connections |-> "none"]
    /\ taken = 0
    /\ stopped = [u \in DOMAIN connections |-> FALSE]

\* the connections whose HubConnection refuses a call of start(): the promise
\* of _connection.start() is rejected at once unless the state is Disconnected
Refused(st) == {u \in DOMAIN st : st[u] # "disconnected"}

\* this._options.logger.error(`Failed to connect ...`): one more error in a
\* log of n errors; the log is counted up to MaxFailures
Logged(n) == IF n < MaxFailures THEN n + 1 ELSE MaxFailures

\* the calls of start() of connection u that have not ended in a connection:
\* the attempt in flight and the timers pending
PendingStarts(u) == retry[u] + (IF starting[u] THEN 1 ELSE 0)

\* the promise of start() is fulfilled on either path of its try/catch: after
\* the information message, or after the catch block has logged the error and
\* set the timer
Fulfilled(p) == IF p = "pending" THEN "fulfilled" ELSE p

\* Start-Recorder: service.start() of every connection, run until the event
\* loop is idle again. A Disconnected HubConnection moves to Connecting and
\* the promise of start() stays pending; any other refuses the call, the
\* catch block of start() logs the error and schedules the next attempt, and
\* the promise of start() is fulfilled. Promise.all of the command is pending
\* as long as one of the promises is. The command has no precondition; the
\* model follows a connection up to MaxPending calls of start() at a time.
StartRecorder ==
    /\ pc = "idle"
    /\ \A u \in DOMAIN status : PendingStarts(u) < MaxPending
    /\ status' = [u \in DOMAIN status |->
                     IF u \in Refused(status) THEN status[u] ELSE "connecting"]
    /\ starting' = [u \in DOMAIN status |-> starting[u] \/ u \notin Refused(status)]
    /\ failures' = [u \in DOMAIN status |->
                       IF u \in Refused(status) THEN Logged(failures[u]) ELSE failures[u]]
    /\ retry' = [u \in DOMAIN status |->
                    IF u \in Refused(status) THEN retry[u] + 1 ELSE retry[u]]
    /\ promise' = [u \in DOMAIN status |->
                      IF u \notin Refused(status) \/ promise[u] = "pending"
                      THEN "pending" ELSE "fulfilled"]
    /\ stopped' = [u \in DOMAIN stopped |-> FALSE]
    /\ UNCHANGED <<job, connections, buffers, delivered, pc, merged, groups, automation, viewer,
                   log, taken>>

\* start(): _connection.start() has resolved
StartSucceeded(u) ==
    /\ pc = "idle"
    /\ status[u] = "connecting" /\ starting[u]
    /\ status' = [status EXCEPT ![u] = "connected"]
    /\ starting' = [starting EXCEPT ![u] = FALSE]
    /\ promise' = [promise EXCEPT ![u] = Fulfilled(@)]
    /\ UNCHANGED <<job, connections, buffers, delivered, pc, merged, groups, automation, viewer,
                   log, retry, failures, taken, stopped>>

\* a start() that repeats the attempt Start-Recorder has made, and not the
\* attempt of a timer
StartFailedOnce(u) ==
    /\ pc = "idle"
    /\ status[u] = "connecting" /\ starting[u]
    /\ status' = [status EXCEPT ![u] = "disconnected"]
    /\ starting' = [starting EXCEPT ![u] = FALSE]
    /\ failures' = [failures EXCEPT ![u] = Logged(@)]
    /\ retry' = [retry EXCEPT ![u] = IF promise[u] = "pending" THEN @ + 1 ELSE @]
    /\ promise' = [promise EXCEPT ![u] = Fulfilled(@)]
    /\ UNCHANGED <<job, connections, buffers, delivered, pc, merged, groups, automation, viewer,
                   log, taken, stopped>>

\* start(): _connection.start() has rejected; the catch block logs the error
\* and schedules the next attempt, and the promise of start() is fulfilled
StartFailed(u) ==
    /\ pc = "idle"
    /\ status[u] = "connecting" /\ starting[u]
    /\ status' = [status EXCEPT ![u] = "disconnected"]
    /\ starting' = [starting EXCEPT ![u] = FALSE]
    /\ failures' = [failures EXCEPT ![u] = Logged(@)]
    /\ retry' = [retry EXCEPT ![u] = @ + 1]
    /\ promise' = [promise EXCEPT ![u] = Fulfilled(@)]
    /\ UNCHANGED <<job, connections, buffers, delivered, pc, merged, groups, automation, viewer,
                   log, taken, stopped>>

\* start(): _connection.stop() has ended a connection attempt in flight; the
\* HubConnection is Disconnected, the promise of _connection.start() rejects,
\* and the catch block logs the error and schedules the next attempt
StartAborted(u) ==
    /\ pc = "idle"
    /\ status[u] = "disconnecting" /\ starting[u]
    /\ status' = [status EXCEPT ![u] = "disconnected"]
    /\ starting' = [starting EXCEPT ![u] = FALSE]
    /\ failures' = [failures EXCEPT ![u] = Logged(@)]
    /\ retry' = [retry EXCEPT ![u] = @ + 1]
    /\ promise' = [promise EXCEPT ![u] = Fulfilled(@)]
    /\ UNCHANGED <<job, connections, buffers, delivered, pc, merged, groups, automation, viewer,
                   log, taken, stopped>>

\* the timer of setTimeout(() => this.start(), 5000) fires and calls start():
\* a new attempt on a Disconnected HubConnection; on any other the call is
\* refused, logged, and the timer set again. Nothing holds the promise of
\* this call of start().
RetryStart(u) ==
    /\ pc = "idle"
    /\ retry[u] > 0
    /\ IF u \in Refused(status)
       THEN /\ failures' = [failures EXCEPT ![u] = Logged(@)]
            /\ UNCHANGED <<retry, status, starting>>
       ELSE /\ retry' = [retry EXCEPT ![u] = @ - 1]
            /\ status' = [status EXCEPT ![u] = "connecting"]
            /\ starting' = [starting EXCEPT ![u] = TRUE]
            /\ UNCHANGED failures
    /\ UNCHANGED <<job, connections, buffers, delivered, pc, merged, groups, automation, viewer,
                   log, promise, taken, stopped>>

\* the ReceiveRecordingEvent handler of a connection; the hub delivers to a
\* connection that is connected, until the connection has stopped
ReceiveRecordingEvent(u, message) ==
    /\ pc = "idle"
    /\ status[u] = "connected" \/ (status[u] = "disconnecting" /\ ~starting[u])
    /\ delivered < MaxEvents
    /\ buffers' = [buffers EXCEPT ![u] = Append(@, message)]
    /\ delivered' = delivered + 1
    /\ UNCHANGED <<job, connections, status, pc, merged, groups, automation, viewer, log,
                   retry, failures, starting, promise, taken, stopped>>

\* disconnect(): await this._connection.stop() of a connected HubConnection
\* has resolved
DisconnectCompleted(u) ==
    /\ pc = "idle"
    /\ status[u] = "disconnecting" /\ ~starting[u]
    /\ status' = [status EXCEPT ![u] = "disconnected"]
    /\ UNCHANGED <<job, connections, buffers, delivered, pc, merged, groups, automation, viewer,
                   log, retry, failures, starting, promise, taken, stopped>>

\* Stop-Recorder, up to the test of initialConnection. The command has no
\* precondition.
StopSnapshot ==
    /\ pc = "idle"
    /\ LET cleared == ClearBuffers(buffers)
           initialConnection == GetFirstCaptureService(connections, cleared)
       IN  /\ merged' = Snapshot(connections, buffers)
           /\ buffers' = cleared
           /\ status' = DisconnectAll(status)
           /\ IF initialConnection = None
              THEN /\ log' = <<"warning: No active EventCaptureService connections found to stop.">>
                   /\ pc' = "idle"
              ELSE /\ log' = <<>>
                   /\ pc' = "compile"
    /\ groups' = <<>>
    /\ automation' = NoAutomation
    /\ job' = NoJob
    /\ taken' = taken + Len(merged')
    /\ stopped' = [u \in DOMAIN stopped |-> TRUE]
    /\ UNCHANGED <<connections, delivered, viewer, retry, failures, starting, promise>>

\* Stop-Recorder, the try block
StopCompile ==
    /\ pc = "compile"
    /\ \E raw \in {NewBufferGroups(merged)} :
       \E reached \in {Reached(connections, raw)} :
       \E configured \in {ConfiguredGroups(connections, SubSeq(raw, 1, reached))} :
       \E compiled \in {CompiledJobs(connections, configured)} :
       LET initialConnection == GetFirstCaptureService(connections, buffers)
           grps == configured \o SubSeq(raw, reached + 1, Len(raw))
           spinning == {i \in 1..reached : compiled[i].pc # "done"}
           every == ConfiguredGroups(connections, raw)
       IN  IF raw = <<>>
           THEN /\ log' = <<"information: No recorded events found in the buffers.">>
                /\ pc' = "idle"
                /\ UNCHANGED <<job, groups, automation, viewer>>
           ELSE IF spinning # {}
           THEN \* a call of newJob never returns
                /\ pc' = "hung"
                /\ job' = compiled[CHOOSE i \in spinning : \A k \in spinning : i <= k]
                /\ groups' = grps
                /\ UNCHANGED <<automation, viewer, log>>
           ELSE \E document \in
                       {NewAutomation(DriverParametersOf(connections[initialConnection]),
                                      AttachedJobs(connections, every,
                                                   CompiledJobs(connections, every)))} :
                \E calls \in {ViewerCalls(reached = Len(raw), document)} :
                /\ pc' = "idle"
                /\ groups' = grps
                /\ automation' = IF reached = Len(raw) THEN document ELSE NoAutomation
                /\ viewer' = viewer \o calls
                /\ log' = IF reached = Len(raw) THEN log ELSE <<"error: TypeError">>
                /\ UNCHANGED job
    /\ UNCHANGED <<connections, buffers, status, delivered, retry, failures, starting, promise,
                   merged, taken, stopped>>

\* the session with hubs that are reachable: an attempt fails when the
\* HubConnection refuses it or Stop-Recorder ends it
Next ==
    \/ StartRecorder
    \/ \E u \in DOMAIN connections : StartSucceeded(u)
    \/ \E u \in DOMAIN connections : StartAborted(u)
    \/ \E u \in DOMAIN connections : RetryStart(u)
    \/ \E u \in DOMAIN connections : \E m \in MessagesOf(u) :
          ReceiveRecordingEvent(u, EventOfKind(m[1], m[2], m[3]))
    \/ \E u \in DOMAIN connections : DisconnectCompleted(u)
    \/ StopSnapshot
    \/ StopCompile

Spec == Init /\ [][Next]_vars

\* the sessions of the connection layer: connections without driverParameters
InitConn ==
    /\ Init
    /\ \A u \in DOMAIN connections : connections[u] = NewOptions(u, None, NoSettings, None)

\* the connection layer: any attempt may also fail at the hub, any number of
\* times; MaxConnEvents messages of one kind
NextConn ==
    \/ StartRecorder
    \/ \E u \in DOMAIN connections : StartSucceeded(u)
    \/ \E u \in DOMAIN connections : StartFailed(u)
    \/ \E u \in DOMAIN connections : StartAborted(u)
    \/ \E u \in DOMAIN connections : RetryStart(u)
    \/ \E u \in DOMAIN connections, m \in ConnMessages :
          delivered < MaxConnEvents /\ ReceiveRecordingEvent(u, EventOfKind(m[1], m[2], 1))
    \/ \E u \in DOMAIN connections : DisconnectCompleted(u)
    \/ StopSnapshot
    \/ StopCompile

\* the promise of _connection.start() of connection u settles
StartSettles(u) ==
    /\ u \in DOMAIN connections
    /\ StartSucceeded(u) \/ StartFailed(u) \/ StartAborted(u)

\* a timer of connection u fires
TimerFires(u) == u \in DOMAIN connections /\ RetryStart(u)

\* the promise of _connection.stop() of connection u settles
StopSettles(u) == u \in DOMAIN connections /\ DisconnectCompleted(u)

\* the try block of a pass that has started runs to its end
PassEnds == pc = "compile" /\ pc' \in {"idle", "hung"}

\* the event loop runs a callback that is ready again and again between the
\* commands: a promise of the HubConnection settles, a timer fires; and a pass
\* that has started runs on
Fairness ==
    /\ \A u \in {AllUrls[i] : i \in 1..Len(AllUrls)} :
          /\ SF_vars(StartSettles(u))
          /\ SF_vars(TimerFires(u))
          /\ SF_vars(StopSettles(u))
    /\ WF_pc(PassEnds)

SpecConn == InitConn /\ [][NextConn]_vars /\ Fairness

(***************************************************************************)
(* Vocabulary of the properties                                            *)
(***************************************************************************)
PointerPlugins ==
    {"InvokeClick", "InvokeMiddleClick", "InvokeContextClick", "InvokeUser32Click",
     "InvokeUser32MiddleClick", "InvokeUser32ContextClick", "None"}

TypeSequencePlugins == {"SendKeys", "SendUser32Keys"}

SingleKeyPlugins == {"SendKeyboardKey", "SendUser32KeyboardKey"}

IsAccepted(e) == AssertEvent(e) # NoEvent

IsPointerEvent(e) == MatchesMouse(e.type)

IsKeyboardEvent(e) == MatchesKeyboard(e.type)

IsPointerRule(r) == r.pluginName \in PointerPlugins

IsKeyboardRule(r) == r.pluginName \in TypeSequencePlugins \cup SingleKeyPlugins

IsWaitRule(r) == r.pluginName = "WaitFlow"

\* the events of a list that pass normalization
Accepted(events) == SelectSeq(events, IsAccepted)

Timestamps(s) == [i \in 1..Len(s) |-> s[i].timestamp]

\* a printable single-character key / an allow-listed special key
IsPrintableKey(k) == Len(k) = 1

IsSpecialKey(k) == MapHas(ToLowerCase(k))

TypeSequenceArgument(keys) == "{{$ --Keys:" \o JoinKeys(keys) \o "}}"

SingleKeyArgument(k) == "{{$ --Key:" \o IncludeKeyboardEventMap[ToLowerCase(k)] \o "}}"

\* the keyboard runs of a list of accepted events: the key lists of the maximal
\* blocks of consecutive keyboard events; with cut, a special key ends its run
RECURSIVE KeyRuns(_, _, _)
KeyRuns(events, run, cut) ==
    LET flush == IF run = <<>> THEN <<>> ELSE <<run>>
    IN  IF events = <<>> THEN flush
        ELSE LET e == Head(events)
             IN  IF ~IsKeyboardEvent(e) THEN flush \o KeyRuns(Tail(events), <<>>, cut)
                 ELSE IF cut /\ IsSpecialKey(e.key)
                 THEN <<Append(run, e.key)>> \o KeyRuns(Tail(events), <<>>, cut)
                 ELSE KeyRuns(Tail(events), Append(run, e.key), cut)

(***************************************************************************)
(* Properties of newJob (SpecJob)                                          *)
(***************************************************************************)
\* C1: compiling a group always terminates: from every position of newJob that
\* is not its return, the loops make a step that changes the state.
C1_NewJobTerminates ==
    job.pc = "done" \/ ENABLED <<NextJob>>_vars

\* C2: the last rule of every job newJob returns is the CloseBrowser rule, that
\* rule occurs once, and a group without accepted events gives [CloseBrowser].
C2_CloseBrowserLast ==
    job.pc = "done" =>
        LET r == job.rules
        IN  /\ r # <<>>
            /\ Last(r) = CloseBrowserRule
            /\ Cardinality({i \in 1..Len(r) : r[i].pluginName = "CloseBrowser"}) = 1
            /\ (Accepted(job.events) = <<>> => r = <<CloseBrowserRule>>)

\* C2 witness: a returned job compiled with think-time, holding a WaitFlow rule.
C2_Witness ==
    /\ job.pc = "done"
    /\ job.thinkTimeSettings.enabled
    /\ \E i \in 1..Len(job.rules) : IsWaitRule(job.rules[i])
    /\ Last(job.rules) = CloseBrowserRule

\* C3: the pointer rules of a returned job are, in order, the accepted pointer
\* events of its group (one rule per event, identified by its timestamp).
C3_PointerEventsKept ==
    job.pc = "done" =>
        Timestamps(SelectSeq(job.rules, IsPointerRule))
            = Timestamps(SelectSeq(Accepted(job.events), IsPointerEvent))

\* C4: in a group whose accepted key events are all printable single
\* characters, every keyboard run compiles to exactly one type-sequence rule
\* holding the concatenation of its keys, and newJob returns.
C4_PrintableRunCollapses ==
    LET acc == Accepted(job.events)
        runs == KeyRuns(acc, <<>>, FALSE)
        kr == SelectSeq(job.rules, IsKeyboardRule)
    IN  (runs # <<>> /\ \A i \in 1..Len(acc) :
                            IsKeyboardEvent(acc[i]) => IsPrintableKey(acc[i].key))
        => /\ job.pc # "done" => ENABLED <<NextJob>>_vars
           /\ job.pc = "done" =>
                 /\ Len(kr) = Len(runs)
                 /\ \A i \in 1..Len(kr) :
                       /\ kr[i].pluginName \in TypeSequencePlugins
                       /\ kr[i].argument = TypeSequenceArgument(runs[i])

\* C5: in a returned job of a group whose keyboard runs are each one
\* allow-listed key, every run compiled to one single-key rule for its key
\* and there is no type-sequence rule.
C5_SpecialKeyAlone ==
    LET acc == Accepted(job.events)
        runs == KeyRuns(acc, <<>>, FALSE)
        kr == SelectSeq(job.rules, IsKeyboardRule)
    IN  (job.pc = "done" /\ runs # <<>>
         /\ \A i \in 1..Len(runs) : Len(runs[i]) = 1 /\ IsSpecialKey(runs[i][1]))
        => /\ Len(kr) = Len(runs)
           /\ \A i \in 1..Len(kr) :
                 /\ kr[i].pluginName \in SingleKeyPlugins
                 /\ kr[i].argument = SingleKeyArgument(runs[i][1])

\* C6: in a returned job, every run of one or more printable keys ended by an
\* allow-listed special key gave the type-sequence rule of the printable keys
\* immediately followed by the single-key rule of the special key.
C6_FlushOrdering ==
    LET runs == KeyRuns(Accepted(job.events), <<>>, TRUE)
        r == job.rules
    IN  job.pc = "done" =>
        \A n \in 1..Len(runs) :
            LET run == runs[n]
            IN  (/\ Len(run) >= 2
                 /\ IsSpecialKey(Last(run))
                 /\ \A k \in 1..(Len(run) - 1) : IsPrintableKey(run[k]))
                => \E i \in 1..(Len(r) - 1) :
                      /\ r[i].pluginName \in TypeSequencePlugins
                      /\ r[i].argument = TypeSequenceArgument(Front(run))
                      /\ r[i + 1].pluginName \in SingleKeyPlugins
                      /\ r[i + 1].argument = SingleKeyArgument(Last(run))

\* C9: in a job compiled with think-time, two consecutive rules of the compiled
\* list that both carry a timestamp are separated by one WaitFlow rule of
\* duration min(T2 - T1, maxThinkTime) when T2 - T1 > minThinkTime, and are
\* adjacent otherwise; rules without a timestamp are never separated.
C9_ThinkTimeBound ==
    (job.pc = "done" /\ job.thinkTimeSettings.enabled) =>
        LET o == job.rules
            minThinkTime == job.thinkTimeSettings.minThinkTime
            maxThinkTime == job.thinkTimeSettings.maxThinkTime
            real == {i \in 1..Len(o) : ~IsWaitRule(o[i])}
        IN  /\ 1 \in real /\ Len(o) \in real
            /\ \A i \in real : \A k \in real :
                  (i < k /\ \A m \in real : ~(i < m /\ m < k)) =>
                      LET t1 == o[i].timestamp
                          t2 == o[k].timestamp
                      IN  IF t1 # NoTimestamp /\ t2 # NoTimestamp /\ t2 - t1 > minThinkTime
                          THEN /\ k = i + 2
                               /\ o[i + 1].argument =
                                    "{{$ --Timeout:" \o ToString(Min(t2 - t1, maxThinkTime)) \o "}}"
                          ELSE k = i + 1

\* C9 witness: a job with a capped wait, an uncapped wait and a pair of
\* timestamped rules left adjacent.
C9_Witness ==
    /\ job.pc = "done" /\ job.thinkTimeSettings.enabled
    /\ \E i \in 1..Len(job.rules) :
          job.rules[i].argument = "{{$ --Timeout:3}}"
    /\ \E i \in 1..(Len(job.rules) - 1) :
          /\ job.rules[i].timestamp # NoTimestamp
          /\ job.rules[i + 1].timestamp # NoTimestamp
          /\ job.rules[i + 1].timestamp - job.rules[i].timestamp
                = job.thinkTimeSettings.minThinkTime

(***************************************************************************)
(* Properties of the stop pass (Spec)                                      *)
(***************************************************************************)
\* the events of all the groups, in group order
RECURSIVE ConcatEvents(_)
ConcatEvents(grps) ==
    IF grps = <<>> THEN <<>> ELSE Head(grps).events \o ConcatEvents(Tail(grps))

NonDecreasing(m) ==
    \A i \in 1..(Len(m) - 1) : m[i].timestamp <= m[i + 1].timestamp

\* the items of m of connection u with timestamp t are the messages of the
\* buffer of u with timestamp t, in buffer order
KeepsBufferOrder(bufs, m) ==
    \A u \in DOMAIN bufs : \A t \in Times :
        LET fromU == SelectSeq(m, LAMBDA item : item.baseUrl = u /\ item.timestamp = t)
        IN  [i \in 1..Len(fromU) |-> Untagged(fromU[i])]
                = SelectSeq(bufs[u], LAMBDA e : e.timestamp = t)

\* C7: the merged sequence a stop pass builds is non-decreasing in timestamp,
\* and events of one connection with equal timestamps keep their buffer order.
C7_MergeOrdered ==
    [][StopSnapshot => (NonDecreasing(merged') /\ KeepsBufferOrder(buffers, merged'))]_vars

\* C7 witness: a snapshot of two connections in which the second connection's
\* event comes first and two different events of the first connection have
\* the same timestamp.
C7_Witness ==
    /\ Len(merged) = 3
    /\ merged[1].baseUrl = AllUrls[2]
    /\ merged[2].baseUrl = AllUrls[1] /\ merged[3].baseUrl = AllUrls[1]
    /\ merged[2].timestamp = merged[3].timestamp
    /\ merged[2] # merged[3]

Segmentation(m, grps) ==
    /\ ConcatEvents(grps) = m
    /\ \A i \in 1..Len(grps) :
          /\ grps[i].id = i
          /\ grps[i].events # <<>>
          /\ \A k \in 1..Len(grps[i].events) :
                grps[i].events[k].machineName = grps[i].machineName
    /\ \A i \in 1..(Len(grps) - 1) : grps[i].machineName # grps[i + 1].machineName

\* C8: the groups newBufferGroups returns, concatenated, are the merged
\* sequence; every group is non-empty and of one machine, ids are 1..n, and
\* adjacent groups are of different machines.
C8_Segmentation ==
    [][StopCompile => Segmentation(merged, groups')]_vars

\* C8 witness: a machine reappears after another one: three groups.
C8_Witness ==
    /\ Len(groups) = 3
    /\ groups[1].machineName = groups[3].machineName
    /\ groups[1].machineName # groups[2].machineName

\* C10: in every document a pass builds, every group has recorded the baseUrl
\* of the connection that contributed its first event, and its job is the one
\* compiled with the mode and the think-time settings of that connection.
C10_GroupConfiguration ==
    automation # NoAutomation =>
        \A i \in 1..Len(groups) :
            LET origin == connections[groups[i].events[1].baseUrl]
            IN  /\ groups[i].baseUrl = origin.baseUrl
                /\ groups[i].thinkTimeSettings = ThinkTimeOf(origin)
                /\ automation.stages[1].jobs[i].rules
                      = NewJob(JobId(groups[i]), ModeOf(origin),
                               [groups[i] EXCEPT !.thinkTimeSettings = ThinkTimeOf(origin)]).rules

(***************************************************************************)
(* Properties of the assembled document and of the pass (Spec, SpecConn)   *)
(***************************************************************************)
UrlSet == {AllUrls[i] : i \in 1..Len(AllUrls)}

\* the connection that delivered the first event of a group
OriginOf(group) == connections[group.events[1].baseUrl]

\* the driver parameters a job runs with: its own, or those of the document
\* when its own are empty
EffectiveDriverParameters(document, i) ==
    LET own == document.stages[1].jobs[i].driverParameters
    IN  IF own = EmptyObject THEN document.driverParameters ELSE own

\* C11: in an assembled document the first job runs with the driver parameters
\* of the connection of the earliest event of the snapshot, and every later job
\* carries the driver parameters of its own originating connection (empty when
\* that connection supplies none).
C11_DriverParameters ==
    automation # NoAutomation =>
        /\ EffectiveDriverParameters(automation, 1)
              = DriverParametersOf(connections[merged[1].baseUrl])
        /\ \A i \in 2..Len(groups) :
              automation.stages[1].jobs[i].driverParameters
                  = DriverParametersOf(OriginOf(groups[i]))

\* C12: the document handed to the viewer has one stage, and that stage holds
\* one job per group of the pass, job i being the job compiled from group i.
C12_Assembly ==
    [][(StopCompile /\ viewer' # viewer) =>
          LET document == Last(viewer')
              jobs == document.stages[1].jobs
          IN  /\ Len(document.stages) = 1
              /\ Len(jobs) = Len(groups')
              /\ \A i \in 1..Len(jobs) :
                    /\ jobs[i].id = JobId(groups'[i])
                    /\ jobs[i].machineName = groups'[i].machineName
                    /\ jobs[i].rules
                          = NewJob(JobId(groups'[i]),
                                   ModeOf(ConnectionOf(connections, groups'[i])),
                                   groups'[i]).rules]_vars

\* C12 witness: a document of three jobs, of machines HostA, HostB, HostA, has
\* been handed to the viewer.
C12_Witness ==
    /\ viewer # <<>>
    /\ Len(Last(viewer).stages[1].jobs) = 3
    /\ Last(viewer).stages[1].jobs[1].rules # Last(viewer).stages[1].jobs[3].rules
    /\ Last(viewer).stages[1].jobs[2].machineName = "HostB"

\* C13: a stop pass over the empty buffers of its connections ends with the information message, no
\* document and no call of the viewer.
C13_EmptyRecording ==
    [][((StopSnapshot \/ StopCompile) /\ DOMAIN connections # {} /\ merged' = <<>> /\ pc' = "idle") =>
          /\ log' = <<"information: No recorded events found in the buffers.">>
          /\ automation' = NoAutomation
          /\ viewer' = viewer]_vars

\* the messages a snapshot holds for connection u, in snapshot order
SnapshotOf(m, u) ==
    LET fromU == SelectSeq(m, LAMBDA item : item.baseUrl = u)
    IN  [i \in 1..Len(fromU) |-> Untagged(fromU[i])]

\* the same messages, each as often, in two sequences
SameMessages(a, b) ==
    /\ Len(a) = Len(b)
    /\ \A e \in {a[i] : i \in 1..Len(a)} \cup {b[i] : i \in 1..Len(b)} :
          Cardinality({i \in 1..Len(a) : a[i] = e}) = Cardinality({i \in 1..Len(b) : b[i] = e})

\* C14: the snapshot of a stop pass holds every message buffered when the pass
\* starts, the buffers are cleared and the connections stopped in that same
\* step; a message received later changes neither the snapshot nor the
\* document, and the groups of the pass hold the events of the snapshot only.
C14_SnapshotBeforeTeardown ==
    [][/\ StopSnapshot =>
            /\ \A u \in DOMAIN buffers : SameMessages(SnapshotOf(merged', u), buffers[u])
            /\ Len(merged') = Len(FlatMap(Values(connections), buffers))
            /\ \A u \in DOMAIN buffers : buffers'[u] = <<>> /\ status'[u] # "connected"
       /\ delivered' # delivered =>
            /\ merged' = merged /\ groups' = groups
            /\ automation' = automation /\ viewer' = viewer
       /\ (StopCompile /\ groups' # groups) => ConcatEvents(groups') = merged]_vars

\* C14 witness: after a pass has handed over its document, a message with a
\* timestamp the snapshot does not hold has arrived on the stopping connection.
C14_Witness ==
    /\ pc = "idle" /\ automation # NoAutomation /\ viewer # <<>>
    /\ \E u \in DOMAIN buffers :
          /\ status[u] = "disconnecting"
          /\ buffers[u] # <<>>
          /\ \A i \in 1..Len(merged) : merged[i].timestamp # buffers[u][1].timestamp

\* a message has arrived on connection u after the pass cleared its buffer
Late(u) ==
    /\ u \in DOMAIN connections
    /\ status[u] # "connected"
    /\ buffers[u] # <<>>

\* C15: a message delivered to a connection after the stop pass and before the
\* connection has stopped is eventually taken from the buffer by a snapshot
\* (only a snapshot empties a buffer).
C15_NoSilentDrop ==
    \A u \in UrlSet : [](Late(u) => <>(u \in DOMAIN connections /\ buffers[u] = <<>>))

\* C16: when a stop pass has ended without a document, every message of its
\* snapshot is still in the buffer of its connection.
C16_ClearingFollowsCompilation ==
    (pc = "idle" /\ merged # <<>> /\ automation = NoAutomation) =>
        \A i \in 1..Len(merged) :
            \E k \in 1..Len(buffers[merged[i].baseUrl]) :
                buffers[merged[i].baseUrl][k] = Untagged(merged[i])

\* C17: every stop pass clears every buffer and stops every connection, and a
\* pass whose loop over the groups throws ends in the catch block, with the
\* error logged, the pass over and the connections still cleared and stopped.
C17_CleanupOnFailure ==
    [][/\ StopSnapshot =>
            \A u \in DOMAIN connections :
                buffers'[u] = <<>> /\ status'[u] \in {"disconnecting", "disconnected"}
       /\ (StopCompile /\ \E i \in 1..Len(groups') : Throws(groups'[i])) =>
            /\ pc' \in {"idle", "hung"}
            /\ pc' = "idle" => log' = <<"error: TypeError">>
            /\ \A u \in DOMAIN connections :
                  buffers'[u] = <<>> /\ status'[u] \in {"disconnecting", "disconnected"}]_vars

\* C17 witness: a pass over a connected connection has ended in the catch block.
C17_Witness ==
    /\ pc = "idle" /\ log = <<"error: TypeError">>
    /\ \E i \in 1..Len(groups) : Throws(groups[i])
    /\ \E u \in DOMAIN connections : status[u] = "disconnecting" /\ buffers[u] = <<>>

\* C18: the viewer is called at most once in a pass, with a document that holds
\* a job for every group; a pass in which the compilation of a group throws or
\* does not return calls no viewer.
C18_AllOrNothing ==
    [][/\ viewer' # viewer =>
            /\ StopCompile
            /\ Len(viewer') = Len(viewer) + 1
            /\ SubSeq(viewer', 1, Len(viewer)) = viewer
            /\ Len(Last(viewer').stages[1].jobs) = Len(groups')
            /\ Last(viewer') = automation'
       /\ (StopCompile /\ (pc' = "hung" \/ \E i \in 1..Len(groups') : Throws(groups'[i]))) =>
            viewer' = viewer]_vars

\* C18 witness: the first group of a pass was compiled, the second one threw,
\* and the viewer has not been called.
C18_Witness ==
    /\ pc = "idle" /\ viewer = <<>>
    /\ Len(groups) >= 2
    /\ ~Throws(groups[1]) /\ Throws(groups[2])
    /\ groups[1].events[1].type = "mouse"

\* a connection attempt of connection u is in flight or scheduled
Pending(u) ==
    /\ u \in DOMAIN connections
    /\ status[u] = "connecting" \/ retry[u] > 0

\* connection u is connected
Connected(u) == u \in DOMAIN connections /\ status[u] = "connected"

\* Start-Recorder awaits a promise of start() of connection u
Awaited(u) == u \in DOMAIN connections /\ promise[u] = "pending"

\* the promise of start() of connection u is fulfilled
Completed(u) == u \in DOMAIN connections /\ promise[u] = "fulfilled"

\* the hub of connection u turns an attempt down, or Stop-Recorder is invoked
Disturbed(u) == StopSnapshot \/ (u \in DOMAIN connections /\ StartFailed(u))

\* C19: start() never fails towards its caller: a promise it has returned to
\* Start-Recorder is fulfilled, never rejected, also when the attempt fails,
\* so Promise.all of the command is fulfilled. Every failed attempt, the first
\* as any later one, is logged and sets one more timer, and leaves the
\* connection ready for the attempt of the timer. A connection with an attempt
\* in flight or scheduled becomes connected, unless its hub turns attempts
\* down again and again or Stop-Recorder is invoked again and again.
C19_ConnectionRetry ==
    /\ [][\A u \in DOMAIN connections :
            /\ (status[u] = "connecting" /\ status'[u] = "disconnected") =>
                  /\ failures'[u] > failures[u] \/ failures[u] = MaxFailures
                  /\ retry'[u] = retry[u] + 1
            /\ failures'[u] # failures[u] =>
                  /\ failures'[u] = failures[u] + 1
                  /\ retry'[u] >= 1 /\ retry'[u] >= retry[u]
            /\ promise'[u] # promise[u] => promise'[u] \in {"pending", "fulfilled"}]_vars
    /\ \A u \in UrlSet :
          /\ [](Awaited(u) => <>Completed(u))
          /\ \/ []<><<Disturbed(u)>>_vars
             \/ [](Pending(u) => <>Connected(u))

\* C19 witness: a connection is connected after attempts that failed, the
\* first and a later one, while the attempts of another connection have failed
\* and the next one is scheduled, and Start-Recorder has completed.
C19_Witness ==
    \E u, v \in DOMAIN connections :
        /\ u # v
        /\ status[u] = "connected" /\ failures[u] = MaxFailures /\ retry[u] = 0
        /\ status[v] = "disconnected" /\ failures[v] >= 1 /\ retry[v] >= 1
        /\ promise[u] = "fulfilled" /\ promise[v] = "fulfilled"

(***************************************************************************)
(* Properties of the rules of a job (SpecKinds, SpecJob)                   *)
(***************************************************************************)
\* the button class an event string names
ButtonOf(e) ==
    CASE e.event \in {"Left Up", "Left Down"} -> "left"
      [] e.event \in {"Middle Up", "Middle Down"} -> "middle"
      [] e.event \in {"Right Up", "Right Down"} -> "right"
      [] OTHER -> "other"

\* the closed table of pointer plugins
PointerPluginOf(button, mode) ==
    CASE button = "left" /\ mode = "standard" -> "InvokeClick"
      [] button = "middle" /\ mode = "standard" -> "InvokeMiddleClick"
      [] button = "right" /\ mode = "standard" -> "InvokeContextClick"
      [] button = "left" /\ mode # "standard" -> "InvokeUser32Click"
      [] button = "middle" /\ mode # "standard" -> "InvokeUser32MiddleClick"
      [] button = "right" /\ mode # "standard" -> "InvokeUser32ContextClick"

\* the main loop is about to compile an accepted pointer event
AtPointerEvent ==
    /\ job.pc = "main" /\ job.buffer # <<>>
    /\ IsAccepted(Head(job.buffer))
    /\ IsPointerEvent(Head(job.buffer))

\* C21: the rule the main loop pushes for an accepted pointer event of button
\* left, middle or right has the plugin of the closed table for its button and
\* the mode; in coordinate mode it has no onElement and the argument holds X
\* and Y of the event, in the other modes onElement is the event's locator.
C21_PointerRuleMapping ==
    [][(JobMainIteration /\ AtPointerEvent
            /\ ButtonOf(Head(job.buffer)) \in {"left", "middle", "right"}) =>
          LET e == Head(job.buffer)
              r == Last(job'.rules)
          IN  /\ Len(job'.rules) = Len(job.rules) + 1
              /\ r.pluginName = PointerPluginOf(ButtonOf(e), job.mode)
              /\ IF job.mode = "coordinate"
                 THEN /\ r.onElement = None
                      /\ r.argument = "{{$ --X:" \o ToString(e.x) \o " --Y:" \o ToString(e.y) \o "}}"
                 ELSE r.onElement = e.locator]_vars

\* C21 witness: a job compiled in coordinate mode holds a context click with
\* coordinates, after a middle click.
C21_Witness ==
    /\ job.pc = "done" /\ job.mode = "coordinate"
    /\ Len(job.rules) = 3
    /\ job.rules[1].pluginName = "InvokeUser32MiddleClick"
    /\ job.rules[2].pluginName = "InvokeUser32ContextClick"
    /\ job.rules[2].onElement = None
    /\ job.rules[2].argument = "{{$ --X:10 --Y:20}}"

\* the accepted events of a group are all pointer events
PointerOnly(events) ==
    \A i \in 1..Len(events) : IsAccepted(events[i]) => IsPointerEvent(events[i])

ToBeRejected(e) ==
    \/ e.event \in MouseDownEvents \cup {"Key Down"}
    \/ e.event \notin MouseUpEvents \cup {"Key Up"}
    \/ ~e.path
    \/ e.locator = RecorderLocator

\* C23: assertEvent returns null for every event to be rejected; the step that
\* reads such an event adds no rule and no key, and every pointer or keyboard
\* rule of a returned job has the timestamp of an event that is not rejected.
C23_NormalizationFilter ==
    /\ [](\A i \in 1..Len(job.events) :
             ToBeRejected(job.events[i]) => AssertEvent(job.events[i]) = NoEvent)
    /\ [][((JobMainIteration \/ JobScanIteration) /\ job.buffer # <<>>
              /\ ToBeRejected(Head(job.buffer))) =>
             /\ job'.rules = job.rules
             /\ job'.keysBuffer = job.keysBuffer
             /\ job'.buffer = Tail(job.buffer)]_vars
    /\ [](job.pc = "done" =>
             \A i \in 1..Len(job.rules) :
                 (IsPointerRule(job.rules[i]) \/ IsKeyboardRule(job.rules[i])) =>
                     \E k \in 1..Len(job.events) :
                         /\ ~ToBeRejected(job.events[k])
                         /\ job.events[k].timestamp = job.rules[i].timestamp)

\* C23 witness: a group of a down event, a click and an event on the recorder's
\* UI has been compiled to the rule of the click.
C23_Witness ==
    /\ job.pc = "done"
    /\ Len(job.events) = 3
    /\ job.events[1].event = "Left Down"
    /\ ~ToBeRejected(job.events[2])
    /\ job.events[3].locator = RecorderLocator
    /\ Len(job.rules) = 2
    /\ job.rules[1].timestamp = job.events[2].timestamp

\* what a key adds to a type-sequence argument
Contribution(key) ==
    IF key = "Space" THEN " "
    ELSE IF Len(key) > 1 THEN ""
    ELSE key

\* the events are a run of accepted keys outside the allow-list, ended by an
\* accepted pointer event
KeysThenPointer(events) ==
    /\ Len(events) >= 2
    /\ \A i \in 1..(Len(events) - 1) :
          /\ IsAccepted(events[i]) /\ IsKeyboardEvent(events[i])
          /\ ~IsSpecialKey(events[i].key)
    /\ IsAccepted(Last(events)) /\ IsPointerEvent(Last(events))

\* C24: the type-sequence rule of a run of keys outside the allow-list has, as
\* argument, the keys of the run in order, a key name longer than one character
\* left out and the space key as one space, the first key of the run included.
C24_KeyFiltering ==
    (job.pc = "done" /\ KeysThenPointer(job.events)) =>
        job.rules[1].argument
            = TypeSequenceArgument([i \in 1..(Len(job.events) - 1) |->
                                        Contribution(job.events[i].key)])

\* C25: every single-key rule of a returned job has the timestamp and the
\* locator of an allow-listed key event with the key of its argument, and every
\* type-sequence rule has the timestamp of a key event outside the allow-list.
C25_KeyboardProvenance ==
    job.pc = "done" =>
        \A i \in 1..Len(job.rules) :
            /\ job.rules[i].pluginName \in SingleKeyPlugins =>
                  \E k \in 1..Len(job.events) :
                      /\ IsAccepted(job.events[k]) /\ IsKeyboardEvent(job.events[k])
                      /\ IsSpecialKey(job.events[k].key)
                      /\ job.rules[i].timestamp = job.events[k].timestamp
                      /\ job.rules[i].argument = SingleKeyArgument(job.events[k].key)
                      /\ job.mode # "coordinate" => job.rules[i].onElement = job.events[k].locator
            /\ job.rules[i].pluginName \in TypeSequencePlugins =>
                  \E k \in 1..Len(job.events) :
                      /\ IsAccepted(job.events[k]) /\ IsKeyboardEvent(job.events[k])
                      /\ ~IsSpecialKey(job.events[k].key)
                      /\ job.rules[i].timestamp = job.events[k].timestamp

\* the rules of the job compiled without think-time
PlainRules(j) ==
    NewJob(j.id, j.mode, NewBufferGroup(1, j.machineName, j.events, None, NoThinkTime)).rules

\* C26: the rules of a returned job without its WaitFlow rules are the rules
\* compiled without think-time; a WaitFlow rule stands between two rules with
\* a timestamp, so not before CloseBrowser and not at the end; a job compiled
\* with think-time disabled has no WaitFlow rule.
C26_PureInsertion ==
    job.pc = "done" =>
        /\ SelectSeq(job.rules, LAMBDA r : ~IsWaitRule(r)) = PlainRules(job)
        /\ \A i \in 1..Len(job.rules) :
              IsWaitRule(job.rules[i]) =>
                  /\ 1 < i /\ i < Len(job.rules)
                  /\ IsFiniteTimestamp(job.rules[i - 1])
                  /\ IsFiniteTimestamp(job.rules[i + 1])
        /\ ~job.thinkTimeSettings.enabled =>
              \A i \in 1..Len(job.rules) : ~IsWaitRule(job.rules[i])

\* C26 witness: a job with two inserted waits, none before CloseBrowser.
C26_Witness ==
    /\ job.pc = "done" /\ job.thinkTimeSettings.enabled
    /\ Len(job.rules) = 6
    /\ IsWaitRule(job.rules[2]) /\ IsWaitRule(job.rules[4])
    /\ job.rules[6].pluginName = "CloseBrowser"

(***************************************************************************)
(* Properties of the stop pass and the connections (Spec, SpecConn)        *)
(***************************************************************************)
\* some connection holds a buffered message
SomeBuffered == \E u \in DOMAIN buffers : buffers[u] # <<>>

\* C27: a stop pass that finds a buffered message on any of its connections
\* goes on to compile its snapshot; it does not take the early return that
\* logs the warning about missing connections.
C27_RecordingNotLost ==
    [][(StopSnapshot /\ SomeBuffered) =>
          /\ merged' # <<>>
          /\ pc' = "compile"
          /\ log' = <<>>]_vars

\* the number of messages in the buffers of the connections
RECURSIVE Buffered(_)
Buffered(urls) ==
    IF urls = {} THEN 0
    ELSE LET u == CHOOSE v \in urls : TRUE
         IN  Len(buffers[u]) + Buffered(urls \ {u})

\* C28: every delivered message is in a buffer or has been taken by the
\* snapshot of one stop pass, never both and never by two; a stop pass takes
\* the buffered messages and leaves the buffers empty, and a stop pass that
\* finds the buffers empty has an empty snapshot and shows no document.
C28_CompiledOnce ==
    /\ [](taken + Buffered(DOMAIN buffers) = delivered)
    /\ [][StopSnapshot =>
             /\ Len(merged') = Buffered(DOMAIN buffers)
             /\ \A u \in DOMAIN buffers : buffers'[u] = <<>>
             /\ ~SomeBuffered => (merged' = <<>> /\ viewer' = viewer)]_vars
    /\ [][(StopCompile /\ merged = <<>>) =>
             (viewer' = viewer /\ automation' = NoAutomation)]_vars

\* C28 witness: a pass has shown the document of two messages, the next pass
\* found nothing to compile.
C28_Witness ==
    /\ pc = "idle"
    /\ taken = 2 /\ delivered = 2
    /\ Len(viewer) = 1
    /\ merged = <<>>
    /\ log = <<"information: No recorded events found in the buffers.">>

\* C29: a connection that Stop-Recorder has disconnected is neither starting
\* nor connected before Start-Recorder is invoked again.
C29_StopIsFinal ==
    \A u \in DOMAIN status : stopped[u] => status[u] \notin {"connecting", "connected"}

\* C30: the jobs of the stage of a document have pairwise different ids.
C30_UniqueJobIds ==
    automation # NoAutomation =>
        LET jobs == automation.stages[1].jobs
        IN  \A i, k \in 1..Len(jobs) : i # k => jobs[i].id # jobs[k].id

====
